---- MODULE Spec2Model ----
(***************************************************************************)
(* Model of the schema registry of heimspiel/rest (schema.go):             *)
(* API.RegisterModel and the helpers it calls, over a finite universe of   *)
(* Go types.  Schemas are heap nodes (Go pointers), so that aliasing       *)
(* between api.models and the schemas handed back to callers is kept.      *)
(***************************************************************************)
EXTENDS Integers, Sequences, FiniteSets, TLC

VARIABLES
    models,         \* api.models: canonical name -> schema (heap address)
    visitedModels,  \* api.visitedModels: set of t.String() marked true
    heap,           \* the *openapi3.Schema values allocated so far
    comments,       \* api.comments: the packages whose comments are cached
    calls,          \* the top-level RegisterModel calls made and what they returned
    crashed,        \* the goroutine died of unbounded recursion (stack overflow)
    hookOn,         \* api.ApplyCustomSchemaToType is configured (non-nil)
    applied         \* one application of a helper function: its input and its result

vars == <<models, visitedModels, heap, comments, calls, crashed, hookOn, applied>>

(***************************************************************************)
(* Bounds of the model.                                                    *)
(***************************************************************************)
\* number of top-level RegisterModel calls in one API instance
MaxCalls == 3
\* recursion depth at which the Go runtime's stack limit is taken to be hit
MaxDepth == 8
\* number of top-level calls in the specification of unnamed-type names
MaxNamingCalls == 4

(***************************************************************************)
(* Small helpers on finite maps and sequences.                             *)
(***************************************************************************)
EmptyMap == [x \in {} |-> 0]

MapPut(m, k, v) == [x \in DOMAIN m \cup {k} |-> IF x = k THEN v ELSE m[x]]

MapDelete(m, k) == [x \in DOMAIN m \ {k} |-> m[x]]

\* for k, v := range src { dst[k] = v }
MapMerge(dst, src) ==
    [x \in DOMAIN dst \cup DOMAIN src |-> IF x \in DOMAIN src THEN src[x] ELSE dst[x]]

SeqToSet(s) == {s[i] : i \in 1..Len(s)}

Contains(s, x) == \E i \in 1..Len(s) : s[i] = x

RECURSIVE Join(_)
Join(toks) == IF toks = <<>> THEN "" ELSE Head(toks) \o Join(Tail(toks))

IsPrefix(p, s) == Len(p) <= Len(s) /\ SubSeq(s, 1, Len(p)) = p

(***************************************************************************)
(* The Go types of the universe (reflect.Type).  A type is identified by   *)
(* its t.String(); strings that the code rewrites character by character   *)
(* (package paths, type names) are kept as token sequences.                *)
(***************************************************************************)
NoCustom == [on |-> FALSE, required |-> <<>>]

Custom(req) == [on |-> TRUE, required |-> req]

\* one struct field: reflect.StructField and the tags RegisterModel reads
Field(name, type, json, anonymous, omitempty, enums) ==
    [name |-> name, type |-> type, json |-> json, anonymous |-> anonymous,
     exported |-> TRUE, omitempty |-> omitempty, enums |-> enums,
     swaggertype |-> "", minimum |-> "", maximum |-> "",
     minLength |-> "", maxLength |-> "", set |-> <<>>]

\* a field with the tags minimum, maximum, minLength, maxLength and set;
\* the set tag is kept character by character
Tagged(f, minimum, maximum, minLength, maxLength, set) ==
    [f EXCEPT !.minimum = minimum, !.maximum = maximum,
              !.minLength = minLength, !.maxLength = maxLength, !.set = set]

Plain(name, type, json) == Field(name, type, json, FALSE, FALSE, <<>>)

Embedded(name, type) == Field(name, type, "", TRUE, FALSE, <<>>)

Type(kind, pkg, name, elem, key, fields, custom) ==
    [kind |-> kind, pkg |-> pkg, name |-> name, elem |-> elem, key |-> key,
     fields |-> fields, custom |-> custom]

Prim(kind) == Type(kind, <<>>, <<kind>>, "", "", <<>>, NoCustom)

Named(kind, name) == Type(kind, <<"rest">>, <<name>>, "", "", <<>>, NoCustom)

Struct(name, fields, custom) == Type("struct", <<"rest">>, <<name>>, "", "", fields, custom)

Pointer(elem) == Type("ptr", <<>>, <<>>, elem, "", <<>>, NoCustom)

Slice(elem) == Type("slice", <<>>, <<>>, elem, "", <<>>, NoCustom)

MapOf(key, elem) == Type("map", <<>>, <<>>, elem, key, <<>>, NoCustom)

Types ==
    ( "string"      :> Prim("string") )
 @@ ( "int64"       :> Prim("int64") )
 @@ ( "float64"     :> Prim("float64") )
 @@ ( "*string"     :> Pointer("string") )
 @@ ( "func()"      :> Type("func", <<>>, <<>>, "", "", <<>>, NoCustom) )
 @@ ( "StringEnum"  :> Named("string", "StringEnum") )
 @@ ( "Pence"       :> Named("int64", "Pence") )
 @@ ( "Time"        :> Type("struct", <<"time">>, <<"Time">>, "", "", <<>>, NoCustom) )
    \* type A struct { B *B `json:"b"` } ; type B struct { A *A `json:"a"`; Foo string }
 @@ ( "A"           :> Struct("A", << Plain("B", "*B", "b") >>, NoCustom) )
 @@ ( "B"           :> Struct("B", << Plain("A", "*A", "a"),
                                     Plain("Foo", "string", "foo") >>, NoCustom) )
 @@ ( "*A"          :> Pointer("A") )
 @@ ( "*B"          :> Pointer("B") )
    \* type D struct { X string } with ApplyCustomSchema setting Required
 @@ ( "D"           :> Struct("D", << Plain("X", "string", "") >>, Custom(<<"X">>)) )
 @@ ( "*D"          :> Pointer("D") )
    \* type C struct { D; Y string `validate:"omitempty"` }
 @@ ( "C"           :> Struct("C", << Embedded("D", "D"),
                                     Field("Y", "string", "", FALSE, TRUE, <<>>) >>, NoCustom) )
    \* type Opt struct { S string; When time.Time; Rec A }, each field `validate:"omitempty"`
 @@ ( "Opt"         :> Struct("Opt", << Field("S", "string", "", FALSE, TRUE, <<>>),
                                       Field("When", "Time", "", FALSE, TRUE, <<>>),
                                       Field("Rec", "A", "", FALSE, TRUE, <<>>) >>, NoCustom) )
    \* type P struct { *D; Z []string }
 @@ ( "P"           :> Struct("P", << Embedded("D", "*D"),
                                     Plain("Z", "[]string", "") >>, NoCustom) )
    \* type Q struct { *D; M map[int64]string }
 @@ ( "Q"           :> Struct("Q", << Embedded("D", "*D"),
                                     Plain("M", "map[int64]string", "") >>, NoCustom) )
    \* type E struct { A }
 @@ ( "E"           :> Struct("E", << Embedded("A", "A") >>, NoCustom) )
 @@ ( "[]string"    :> Slice("string") )
    \* type WithMaps struct { Amounts map[string]Pence `json:"amounts"` }
 @@ ( "WithMaps"    :> Struct("WithMaps",
                              << Plain("Amounts", "map[string]Pence", "amounts") >>, NoCustom) )
 @@ ( "map[string]Pence" :> MapOf("string", "Pence") )
 @@ ( "map[int64]string" :> MapOf("int64", "string") )
 @@ ( "*map[int64]string" :> Pointer("map[int64]string") )
    \* type WithEnums struct { S StringEnum; V string `enums:"foo,bar"`; I Pence `enums:"1,2"` }
 @@ ( "WithEnums"   :> Struct("WithEnums",
                              << Plain("S", "StringEnum", "s"),
                                 Field("V", "string", "v", FALSE, FALSE, <<"foo", "bar">>),
                                 Field("I", "Pence", "i", FALSE, FALSE, <<"1", "2">>) >>,
                              NoCustom) )
    \* type Bad struct { Ok string; F func() }
 @@ ( "Bad"         :> Struct("Bad", << Plain("Ok", "string", ""),
                                       Plain("F", "func()", "") >>, NoCustom) )
 @@ ( "*Bad"        :> Pointer("Bad") )
 @@ ( "[]Bad"       :> Slice("Bad") )
    \* type Deep struct { Items []Bad }
 @@ ( "Deep"        :> Struct("Deep", << Plain("Items", "[]Bad", "") >>, NoCustom) )
    \* type BadMap struct { M map[int64]string }
 @@ ( "BadMap"      :> Struct("BadMap", << Plain("M", "map[int64]string", "") >>, NoCustom) )
    \* struct { A string }
 @@ ( "struct { A string }" :>
          Type("struct", <<>>, <<>>, "", "", << Plain("A", "string", "") >>, NoCustom) )
    \* struct { B string }
 @@ ( "struct { B string }" :>
          Type("struct", <<>>, <<>>, "", "", << Plain("B", "string", "") >>, NoCustom) )
    \* struct { In struct { A string } }
 @@ ( "struct { In struct { A string } }" :>
          Type("struct", <<>>, <<>>, "", "",
               << Plain("In", "struct { A string }", "") >>, NoCustom) )
    \* type L []L
 @@ ( "L"           :> Type("slice", <<"rest">>, <<"L">>, "L", "", <<>>, NoCustom) )
    \* package broken, which parser.Get cannot load: type Broken struct { X string }
 @@ ( "Broken"      :> Type("struct", <<"broken">>, <<"Broken">>, "", "",
                            << Plain("X", "string", "") >>, NoCustom) )
 @@ ( "*Broken"     :> Pointer("Broken") )
    \* package broken: type Cracked struct { Y string }
 @@ ( "Cracked"     :> Type("struct", <<"broken">>, <<"Cracked">>, "", "",
                            << Plain("Y", "string", "") >>, NoCustom) )
    \* type Holder struct { N string; Br Broken }
 @@ ( "Holder"      :> Struct("Holder", << Plain("N", "string", ""),
                                          Plain("Br", "Broken", "") >>, NoCustom) )

TypeIds == DOMAIN Types

Kind(t) == Types[t].kind

Elem(t) == Types[t].elem

(***************************************************************************)
(* Schemas (openapi3.Schema) and schema references (openapi3.SchemaRef).   *)
(* A nil *Schema is address 0.  `stages', `baseRequired' and `stray' are   *)
(* history fields: the customisation stages applied to the node, in order, *)
(* the required list as it stood when the field walk of a struct ended,    *)
(* and the names a customisation listed as required that were no property  *)
(* of the node it was given.                                               *)
(***************************************************************************)
NilSchema == 0

RefPrefix == "#/components/schemas/"

\* openapi3.NewSchemaRef("", nil) with neither side set
NoRef == [ref |-> "", val |-> NilSchema]

StrVal(s) == [k |-> "string", v |-> s]

NumVal(s) == [k |-> "number", v |-> s]

NilVal == [k |-> "nil", v |-> ""]

\* the conversion uint64(i) of an int64: a negative i wraps to 2^64 + i
UInt64(i) == [k |-> "uint64", wrapped |-> i < 0, v |-> i]

NewSchema(type) ==
    [type |-> type, nullable |-> FALSE, hasProps |-> FALSE, props |-> EmptyMap,
     required |-> <<>>, enum |-> <<>>, addl |-> NoRef, items |-> NoRef,
     desc |-> "", deprecated |-> FALSE, format |-> "",
     min |-> NilVal, max |-> NilVal, minLength |-> UInt64(0), maxLength |-> NilVal,
     pattern |-> <<>>,
     stages |-> <<>>, baseRequired |-> <<>>, stray |-> {}]

NewStringSchema == NewSchema("string")

NewIntegerSchema == NewSchema("integer")

NewFloat64Schema == NewSchema("number")

NewBoolSchema == NewSchema("boolean")

NewArraySchema == NewSchema("array")

NewObjectSchema == [NewSchema("object") EXCEPT !.hasProps = TRUE]

\* openapi3.Schema{Type: &openapi3.Types{openapi3.TypeObject}}
PlaceholderSchema == NewSchema("object")

(***************************************************************************)
(* API configuration.                                                      *)
(***************************************************************************)
\* api.StripPkgPaths, as the tests set it
StripPkgPaths == { <<"rest">> }

\* api.KnownTypes: time.Time is a date-time string
KnownTypes == ( "Time" :> [NewStringSchema EXCEPT !.format = "date-time"] )

reflectPrimitives ==
    << "int", "int8", "int16", "int32", "int64", "uint", "uint8", "uint16",
       "uint32", "uint64", "float64", "float32", "bool", "string" >>

normalizer(toks) ==
    Join([i \in 1..Len(toks) |->
            IF toks[i] \in {"/", ".", "[", "]"} THEN "_" ELSE toks[i]])

normalizeTypeName(pkgPath, name) ==
    LET omitPackage == \E pkg \in StripPkgPaths : IsPrefix(pkg, pkgPath)
    IN  IF omitPackage \/ pkgPath = <<>>
        THEN normalizer(name)
        ELSE normalizer(pkgPath \o <<"/">> \o name)

\* getModelName reads api.models only for its size
getModelName(mdls, t) ==
    LET pkgPath  == IF Kind(t) = "ptr" THEN Types[Elem(t)].pkg ELSE Types[t].pkg
        typeName == IF Kind(t) = "ptr" THEN Types[Elem(t)].name \o <<"Ptr">>
                    ELSE IF Kind(t) = "map"
                         THEN <<"map", "[">> \o Types[Types[t].key].name
                                  \o <<"]">> \o Types[Elem(t)].name
                         ELSE Types[t].name
    IN  IF Join(typeName) = ""
        THEN "AnonymousType" \o ToString(Cardinality(DOMAIN mdls))
        ELSE normalizeTypeName(pkgPath, typeName)

\* only objects without additionalProperties are referenced
shouldBeReferencedObjectsOnly(schema) ==
    schema.type = "object" /\ schema.addl = NoRef

\* every object is referenced, maps too
shouldBeReferencedAnyObject(schema) ==
    \/ schema.type = "object"
    \/ Len(schema.enum) > 0

shouldBeReferenced(schema) ==
    \/ schema.type = "object" /\ schema.addl = NoRef
    \/ Len(schema.enum) > 0

\* the name is not looked at
getSchemaReferenceAnyName(h, name, schema) ==
    IF shouldBeReferenced(h[schema])
    THEN [ref |-> RefPrefix \o name, val |-> NilSchema]
    ELSE [ref |-> "", val |-> schema]

\* the schema is a pointer: `schema' is its address in heap `h'
getSchemaReferenceOrValue(h, name, schema) ==
    IF ~Contains(reflectPrimitives, name) /\ shouldBeReferenced(h[schema])
    THEN [ref |-> RefPrefix \o name, val |-> NilSchema]
    ELSE [ref |-> "", val |-> schema]

(***************************************************************************)
(* ModelOpts.                                                              *)
(***************************************************************************)
WithNullable == [op |-> "Nullable", desc |-> "", values |-> <<>>]

WithDescription(desc) == [op |-> "Description", desc |-> desc, values |-> <<>>]

WithEnumValues(values) == [op |-> "EnumValues", desc |-> "", values |-> values]

ApplyOpt(s, opt) ==
    LET logged == [s EXCEPT !.stages = Append(@, <<"opt", opt.op>>)]
    IN  CASE opt.op = "Nullable"    -> [logged EXCEPT !.nullable = TRUE]
          [] opt.op = "Description" -> [logged EXCEPT !.desc = opt.desc]
          [] opt.op = "EnumValues"  ->
                IF Len(opt.values) = 0 THEN logged
                ELSE [logged EXCEPT
                        !.type = IF opt.values[1].k = "string" THEN "string" ELSE "integer",
                        !.enum = @ \o opt.values]

RECURSIVE ApplyOpts(_, _)
ApplyOpts(s, opts) ==
    IF opts = <<>> THEN s ELSE ApplyOpts(ApplyOpt(s, Head(opts)), Tail(opts))

(***************************************************************************)
(* The two customisation hooks.                                            *)
(***************************************************************************)
\* api.ApplyCustomSchemaToType(t, schema), when configured: a hook that
\* describes every schema it is given
ApplyCustomSchemaToType(t, s) ==
    IF hookOn
    THEN [s EXCEPT !.desc = "global", !.stages = Append(@, <<"global", t>>)]
    ELSE s

\* the method set of *T holds T's value-receiver ApplyCustomSchema
CustomOf(t) == IF Kind(t) = "ptr" THEN Types[Elem(t)].custom ELSE Types[t].custom

\* model.ApplyCustomSchema(schema): the type's own method, if it has one
ModelApplyCustomSchema(t, s) ==
    IF CustomOf(t).on
    THEN [s EXCEPT !.required = CustomOf(t).required, !.desc = "self",
                   !.stages = Append(@, <<"self", t>>),
                   !.stray = @ \cup (SeqToSet(CustomOf(t).required) \ DOMAIN s.props)]
    ELSE s

(***************************************************************************)
(* Constraints from struct tags.                                           *)
(***************************************************************************)
IntKinds == {"int", "int8", "int16", "int32", "int64",
             "uint", "uint8", "uint16", "uint32", "uint64"}

\* the decimal integer literals of the universe and their values
IntLiterals ==
    ("0" :> 0) @@ ("1" :> 1) @@ ("2" :> 2) @@ ("3" :> 3) @@ ("5" :> 5)
    @@ ("255" :> 255) @@ ("-1" :> -1)

\* the literals only a base prefix makes integers
PrefixedLiterals == ("0x10" :> 16)

\* the literals that are floats only, with the decimal they print as
FloatLiterals == ("9.9999" :> "9.9999")

\* strconv.Atoi(val)
Atoi(val) ==
    IF val \in DOMAIN IntLiterals THEN [ok |-> TRUE, v |-> IntLiterals[val]]
    ELSE [ok |-> FALSE, v |-> 0]

\* strconv.ParseInt(val, 0, 64) for bitlength 0, strconv.ParseFloat otherwise
IntOrFloatToFloat(val, bitlength) ==
    IF val \in DOMAIN IntLiterals
    THEN [ok |-> TRUE, v |-> NumVal(ToString(IntLiterals[val]))]
    ELSE IF bitlength = 0 /\ val \in DOMAIN PrefixedLiterals
    THEN [ok |-> TRUE, v |-> NumVal(ToString(PrefixedLiterals[val]))]
    ELSE IF bitlength > 0 /\ val \in DOMAIN FloatLiterals
    THEN [ok |-> TRUE, v |-> NumVal(FloatLiterals[val])]
    ELSE [ok |-> FALSE, v |-> NilVal]

\* schema.WithMin(min), unless minimum is empty or does not parse
WithMin(bitlength, minimum, s) ==
    IF minimum # "" /\ IntOrFloatToFloat(minimum, bitlength).ok
    THEN [s EXCEPT !.min = IntOrFloatToFloat(minimum, bitlength).v]
    ELSE s

WithMax(bitlength, maximum, s) ==
    IF maximum # "" /\ IntOrFloatToFloat(maximum, bitlength).ok
    THEN [s EXCEPT !.max = IntOrFloatToFloat(maximum, bitlength).v]
    ELSE s

\* s := make([]interface{}, len(enums)); s[i] stays nil when enums[i] does not parse
WithNumberEnum(bitlength, enum, s) ==
    IF enum = <<>> THEN s
    ELSE [s EXCEPT !.enum = [i \in 1..Len(enum) |->
                                IntOrFloatToFloat(enum[i], bitlength).v]]

WithMinMaxEnum(bitlength, minimum, maximum, enum, s) ==
    WithNumberEnum(bitlength, enum, WithMax(bitlength, maximum, WithMin(bitlength, minimum, s)))

\* schema.WithMinLength(int64(minL)): MinLength is a uint64
WithMinLength(minLength, s) ==
    IF minLength # "" /\ Atoi(minLength).ok
    THEN [s EXCEPT !.minLength = UInt64(Atoi(minLength).v)]
    ELSE s

\* schema.WithMaxLength(int64(maxL)): MaxLength is a *uint64
WithMaxLength(maxLength, s) ==
    IF maxLength # "" /\ Atoi(maxLength).ok
    THEN [s EXCEPT !.maxLength = UInt64(Atoi(maxLength).v)]
    ELSE s

WithStringEnum(enum, s) ==
    IF enum = <<>> THEN s
    ELSE [s EXCEPT !.enum = [i \in 1..Len(enum) |-> StrVal(enum[i])]]

WithMinLMaxLEnum(minLength, maxLength, enum, s) ==
    WithStringEnum(enum, WithMaxLength(maxLength, WithMinLength(minLength, s)))

\* strings.Split(str, sep) on a character sequence: the list of the parts
RECURSIVE Split(_, _)
Split(str, sep) ==
    IF ~Contains(str, sep) THEN << str >>
    ELSE << SubSeq(str, 1, (CHOOSE i \in 1..Len(str) :
                              str[i] = sep /\ \A j \in 1..(i - 1) : str[j] # sep) - 1) >>
         \o Split(SubSeq(str, (CHOOSE i \in 1..Len(str) :
                                 str[i] = sep /\ \A j \in 1..(i - 1) : str[j] # sep) + 1,
                         Len(str)), sep)

\* strings.Join(parts, sep) on character sequences
RECURSIVE JoinWith(_, _)
JoinWith(parts, sep) ==
    IF Len(parts) = 0 THEN <<>>
    ELSE IF Len(parts) = 1 THEN parts[1]
    ELSE parts[1] \o << sep >> \o JoinWith(Tail(parts), sep)

\* "^(" + Join(Split(set, ","), "|") + ")(, {0,1}(" + Join(Split(set, ","), "|") + "))*$"
SetPattern(set) ==
    << "^", "(" >> \o JoinWith(Split(set, ","), "|")
    \o << ")", "(", ",", " ", "{", "0", ",", "1", "}", "(" >>
    \o JoinWith(Split(set, ","), "|")
    \o << ")", ")", "*", "$" >>

\* schema.WithPattern(ptrn), if the set tag is there
WithSet(set, s) == IF set # <<>> THEN [s EXCEPT !.pattern = SetPattern(set)] ELSE s

RECURSIVE WithPropsFromStructTags(_, _, _)
WithPropsFromStructTags(f, fieldType, s) ==
    CASE Kind(fieldType) \in IntKinds  ->
            WithMinMaxEnum(0, f.minimum, f.maximum, f.enums, s)
      [] Kind(fieldType) = "float32"   ->
            WithMinMaxEnum(32, f.minimum, f.maximum, f.enums, s)
      [] Kind(fieldType) = "float64"   ->
            WithMinMaxEnum(64, f.minimum, f.maximum, f.enums, s)
      [] Kind(fieldType) = "string"    ->
            WithSet(f.set, WithMinLMaxLEnum(f.minLength, f.maxLength, f.enums, s))
      [] Kind(fieldType) = "ptr"       -> WithPropsFromStructTags(f, Elem(fieldType), s)
      [] OTHER                         -> s

(***************************************************************************)
(* Comments: parser.Get and the per-package cache.                         *)
(***************************************************************************)
\* the packages parser.Get cannot load
FailingPkgs == { <<"broken">> }

NoComment == [text |-> "", lines |-> << <<>> >>]

\* what parser.Get(pkg) returns: key -> comment, lines kept as token sequences
PkgComments(pkg) ==
    IF pkg = <<"rest">>
    THEN ( "rest.B" :> [text |-> "B doc", lines |-> << <<"B", " ", "doc">> >>] )
      @@ ( "rest.B.Foo" :>
             [text |-> "Foo doc",
              lines |-> << <<"Foo", " ", "doc">>,
                           <<" ", "Deprecated:", " ", "gone">> >>] )
    ELSE EmptyMap

RECURSIVE TrimSpace(_)
TrimSpace(line) ==
    IF line # <<>> /\ Head(line) = " " THEN TrimSpace(Tail(line))
    ELSE IF line # <<>> /\ line[Len(line)] = " " THEN TrimSpace(SubSeq(line, 1, Len(line) - 1))
    ELSE line

\* a line holds the marker anywhere
isMarkedAsDeprecatedAnywhere(comment) ==
    \E i \in 1..Len(comment.lines) : Contains(comment.lines[i], "Deprecated:")

isMarkedAsDeprecated(comment) ==
    \E i \in 1..Len(comment.lines) :
        LET line == TrimSpace(comment.lines[i])
        IN  line # <<>> /\ Head(line) = "Deprecated:"

\* pkgComments, err = parser.Get(pkg): the call is entered in st.lookups
ParserGet(st, pkg) ==
    [st EXCEPT !.lookups = Append(@, [pkg |-> pkg, ok |-> pkg \notin FailingPkgs])]

\* the cache is not consulted
getCommentsForPackageUncached(st, pkg) ==
    IF pkg \in FailingPkgs THEN [st |-> ParserGet(st, pkg), err |-> <<"parser.Get failed">>]
    ELSE [st |-> [ParserGet(st, pkg) EXCEPT !.comments = @ \cup {pkg}], err |-> <<>>]

\* returns the updated cache and the error
getCommentsForPackage(st, pkg) ==
    IF pkg \in st.comments THEN [st |-> st, err |-> <<>>]
    ELSE IF pkg \in FailingPkgs
    THEN [st |-> ParserGet(st, pkg), err |-> <<"parser.Get failed">>]
    ELSE [st |-> [ParserGet(st, pkg) EXCEPT !.comments = @ \cup {pkg}], err |-> <<>>]

CommentAt(st, pkg, key) ==
    LET c == getCommentsForPackage(st, pkg)
        comment == IF key \in DOMAIN PkgComments(pkg) THEN PkgComments(pkg)[key]
                   ELSE NoComment
    IN  IF c.err # <<>>
        THEN [st |-> c.st, comment |-> "", deprecated |-> FALSE, err |-> c.err]
        ELSE [st |-> c.st, comment |-> comment.text,
              deprecated |-> isMarkedAsDeprecated(comment), err |-> <<>>]

getTypeComment(st, pkg, name) ==
    CommentAt(st, pkg, Join(pkg) \o "." \o Join(name))

getTypeFieldComment(st, pkg, name, field) ==
    CommentAt(st, pkg, Join(pkg) \o "." \o Join(name) \o "." \o field)

(***************************************************************************)
(* API.RegisterModel.  `st' is the registry state the call runs in;        *)
(* the result carries the state it leaves and the values it returns.       *)
(***************************************************************************)
Wrap(msg, err) == <<msg>> \o err

Ret(st, name, schema, err) == [st |-> st, name |-> name, schema |-> schema, err |-> err]

\* a switch case: `returned' when the case ends in a return statement
Case(st, name, schema, err, returned) ==
    [st |-> st, name |-> name, schema |-> schema, err |-> err, returned |-> returned]

Alloc(st, s) == [st EXCEPT !.heap = Append(@, s)]

Top(st) == Len(st.heap)

\* unbounded recursion ends the program
Overflow(st) == Ret([st EXCEPT !.over = TRUE], "", NilSchema, <<"stack overflow">>)

\* if !slices.Contains(reflectPrimitives, name) { if schema, ok := api.models[name]; ok
MemoHit(mdls, name) == ~Contains(reflectPrimitives, name) /\ name \in DOMAIN mdls

\* the cycle check left out
IsVisitedNever(st, t) == FALSE

\* if ok := api.visitedModels[t.String()]; ok
IsVisited(st, t) == t \in st.visited

\* api.visitedModels[t.String()] = true
MarkVisited(st, t) == [st EXCEPT !.visited = @ \cup {t}]

\* the name is not looked at: whatever is to be referenced is stored
PersistAnyName(st, name, schema) ==
    IF shouldBeReferenced(st.heap[schema])
    THEN [st EXCEPT !.models = MapPut(@, name, schema)]
    ELSE st

\* if !slices.Contains(reflectPrimitives, name) && shouldBeReferenced(schema) { api.models[name] = schema }
Persist(st, name, schema) ==
    IF ~Contains(reflectPrimitives, name) /\ shouldBeReferenced(st.heap[schema])
    THEN [st EXCEPT !.models = MapPut(@, name, schema)]
    ELSE st

\* the options of the call before the two hooks
CustomiseOptsFirst(t, opts, s) ==
    ModelApplyCustomSchema(t, ApplyCustomSchemaToType(t, ApplyOpts(s, opts)))

\* global customisation, then the model's own, then the options of this call
Customise(t, opts, s) ==
    ApplyOpts(ModelApplyCustomSchema(t, ApplyCustomSchemaToType(t, s)), opts)

\* if !alreadyExists { delete(api.models, fieldSchemaName) }
DropEmbedded(st, alreadyExists, fieldSchemaName) ==
    IF ~alreadyExists THEN [st EXCEPT !.models = MapDelete(@, fieldSchemaName)] ELSE st

\* tempOpts of a field
FieldOpts(f) == IF f.omitempty THEN <<WithNullable>> ELSE <<>>

\* the pointer case passes WithNullable() to the call on the element type
PointerOpts == <<WithNullable>>

\* WithPropsFromStructTags writes through the pointer it is given
TagProps(st, f, fieldType, schema) ==
    IF schema = NilSchema THEN st
    ELSE [st EXCEPT !.heap[schema] = WithPropsFromStructTags(f, fieldType, @)]

\* t.Field(i)
FieldAt(t, i) == Types[t].fields[i]

\* fieldType, after the swaggertype override
FieldType(f) == IF f.swaggertype = "string" THEN "string" ELSE f.type

\* fieldName: the first json tag, else the Go name
FieldName(f) == IF f.json = "" THEN f.name ELSE f.json

\* schema.Description, schema.Deprecated = comment, deprecated
Described(c, schema) ==
    [c.st EXCEPT !.heap[schema].desc = c.comment,
                 !.heap[schema].deprecated = c.deprecated]

\* the property is set and its name is put on the required list
SetPropRequired(st, schema, fieldName, ref) ==
    [st EXCEPT !.heap[schema].props = MapPut(@, fieldName, ref),
               !.heap[schema].required = Append(@, fieldName)]

\* the required names of an embedded schema are copied, its properties are not
SpliceRequiredOnly(st, schema, fieldSchema) ==
    [st EXCEPT !.heap[schema].required = @ \o st.heap[fieldSchema].required]

\* schema.Properties[fieldName] = ref
SetProp(st, schema, fieldName, ref) ==
    [st EXCEPT !.heap[schema].props = MapPut(@, fieldName, ref)]

\* the properties and required names of an embedded schema, copied into the container
Splice(st, schema, fieldSchema) ==
    [st EXCEPT !.heap[schema].props = MapMerge(@, st.heap[fieldSchema].props),
               !.heap[schema].required = @ \o st.heap[fieldSchema].required]

\* the hooks and options write through the schema pointer
CustomiseAt(st, schema, t, opts) ==
    [st EXCEPT !.heap[schema] = Customise(t, opts, @)]

\* the field walk is over: the required list as base synthesis leaves it
BaseDone(st, schema) ==
    [st EXCEPT !.heap[schema].baseRequired = st.heap[schema].required]

RECURSIVE RegisterModel(_, _, _, _), RegisterFields(_, _, _, _, _)

\* a named field: the comment is looked up and the property set
FieldCommented(c, ref, t, schema, i, depth) ==
    IF c.err # <<>>
    THEN [st |-> Described(c, ref.val),
          err |-> Wrap("comments of field " \o FieldName(FieldAt(t, i)), c.err)]
    ELSE RegisterFields(SetProp(Described(c, ref.val), schema,
                                FieldName(FieldAt(t, i)), ref),
                        t, schema, i + 1, depth)

\* a named field: `ref' is what getSchemaReferenceOrValue made of its schema
FieldAttached(st, ref, t, schema, i, depth) ==
    IF ref.val = NilSchema
    THEN RegisterFields(SetProp(st, schema, FieldName(FieldAt(t, i)), ref),
                        t, schema, i + 1, depth)
    ELSE FieldCommented(getTypeFieldComment(st, Types[t].pkg, Types[t].name,
                                            FieldAt(t, i).name),
                        ref, t, schema, i, depth)

\* field i once the tag constraints are written on its schema (state st)
FieldTagged(st, r, alreadyExists, t, schema, i, depth) ==
    IF r.err # <<>>
    THEN [st |-> st, err |-> Wrap("field " \o FieldName(FieldAt(t, i)), r.err)]
    ELSE IF FieldAt(t, i).anonymous
    THEN RegisterFields(Splice(DropEmbedded(st, alreadyExists, r.name), schema, r.schema),
                        t, schema, i + 1, depth)
    ELSE FieldAttached(st, getSchemaReferenceOrValue(st.heap, r.name, r.schema),
                       t, schema, i, depth)

\* field i once RegisterModel has returned r for its type
FieldRegistered(r, alreadyExists, t, schema, i, depth) ==
    IF r.st.over THEN [st |-> r.st, err |-> r.err]
    ELSE FieldTagged(TagProps(r.st, FieldAt(t, i), FieldType(FieldAt(t, i)), r.schema),
                     r, alreadyExists, t, schema, i, depth)

\* the for loop over t.Field(i), from field i on
RegisterFields(st, t, schema, i, depth) ==
    IF i > Len(Types[t].fields) THEN [st |-> st, err |-> <<>>]
    ELSE IF ~FieldAt(t, i).exported THEN RegisterFields(st, t, schema, i + 1, depth)
    ELSE FieldRegistered(
             RegisterModel(st, FieldType(FieldAt(t, i)), FieldOpts(FieldAt(t, i)), depth + 1),
             getModelName(st.models, FieldType(FieldAt(t, i))) \in DOMAIN st.models,
             t, schema, i, depth)

\* case reflect.Slice, reflect.Array, once the call on the element returned r
SliceCase(r, name) ==
    IF r.st.over THEN Case(r.st, name, NilSchema, r.err, TRUE)
    ELSE IF r.err # <<>>
    THEN Case(r.st, name, NilSchema, Wrap("slice element", r.err), TRUE)
    ELSE Case(Alloc(r.st, [NewArraySchema EXCEPT
                             !.nullable = TRUE,
                             !.items = getSchemaReferenceOrValue(r.st.heap, r.name, r.schema)]),
              name, Len(r.st.heap) + 1, <<>>, FALSE)

\* case reflect.Map with a string key, once the call on the value type returned r
MapCase(r, name) ==
    IF r.st.over THEN Case(r.st, name, NilSchema, r.err, TRUE)
    ELSE IF r.err # <<>>
    THEN Case(r.st, name, NilSchema, Wrap("map value element", r.err), TRUE)
    ELSE Case(Alloc(r.st, [NewObjectSchema EXCEPT
                             !.nullable = TRUE,
                             !.addl = getSchemaReferenceOrValue(r.st.heap, r.name, r.schema)]),
              name, Len(r.st.heap) + 1, <<>>, FALSE)

\* case reflect.Pointer: name, schema, err = api.RegisterModel(elem, WithNullable())
PointerCase(r) == Case(r.st, r.name, r.schema, r.err, r.st.over)

\* the scalar cases
ScalarCase(st, s, name) == Case(Alloc(st, s), name, Len(st.heap) + 1, <<>>, FALSE)

\* case reflect.Struct, once the field walk returned fl
FieldsDone(fl, name, schema) ==
    IF fl.st.over \/ fl.err # <<>> THEN Case(fl.st, name, schema, fl.err, TRUE)
    ELSE Case(BaseDone(fl.st, schema), name, schema, <<>>, FALSE)

\* case reflect.Struct: c is what getTypeComment returned for the new object schema
StructCase(c, schema, t, name, depth) ==
    IF c.err # <<>>
    THEN Case(Described(c, schema), name, schema,
              Wrap("comments of type " \o name, c.err), TRUE)
    ELSE FieldsDone(RegisterFields(Described(c, schema), t, schema, 1, depth),
                    name, schema)

\* the switch on t.Kind()
Synthesize(st, t, name, depth) ==
    CASE Kind(t) \in {"slice", "array"} ->
            SliceCase(RegisterModel(st, Elem(t), <<>>, depth + 1), name)
      [] Kind(t) = "string" -> ScalarCase(st, NewStringSchema, name)
      [] Kind(t) \in IntKinds \cup {"uintptr"} -> ScalarCase(st, NewIntegerSchema, name)
      [] Kind(t) \in {"float64", "float32"} -> ScalarCase(st, NewFloat64Schema, name)
      [] Kind(t) = "bool" -> ScalarCase(st, NewBoolSchema, name)
      [] Kind(t) = "ptr" ->
            PointerCase(RegisterModel(st, Elem(t), PointerOpts, depth + 1))
      [] Kind(t) = "map" ->
            IF Kind(Types[t].key) # "string"
            THEN Case(st, name, NilSchema, <<"maps must have a string key">>, TRUE)
            ELSE MapCase(RegisterModel(st, Elem(t), <<>>, depth + 1), name)
      [] Kind(t) = "struct" ->
            StructCase(getTypeComment(Alloc(st, NewObjectSchema), Types[t].pkg, Types[t].name),
                       Len(st.heap) + 1, t, name, depth)
      [] OTHER -> Case(st, name, NilSchema, <<>>, FALSE)

\* after the switch: the nil check, the customisation, the decision to store
AfterSwitch(b, t, opts) ==
    IF b.returned THEN Ret(b.st, b.name, b.schema, b.err)
    ELSE IF b.schema = NilSchema
    THEN Ret(b.st, b.name, NilSchema, <<"unsupported type">>)
    ELSE Ret(Persist(CustomiseAt(b.st, b.schema, t, opts), b.name, b.schema),
             b.name, b.schema, b.err)

\* a known type: the copy of the known schema is stored if it is to be referenced
KnownCase(st, name) == Ret(Persist(st, name, Top(st)), name, Top(st), <<>>)

\* the name is computed; memoisation, known types, the cycle check, the switch
Dispatch(st, t, opts, depth, name) ==
    IF MemoHit(st.models, name) THEN Ret(st, name, st.models[name], <<>>)
    ELSE IF t \in DOMAIN KnownTypes THEN KnownCase(Alloc(st, KnownTypes[t]), name)
    ELSE IF Kind(t) = "struct" /\ IsVisited(st, t)
    THEN Ret(Alloc(st, PlaceholderSchema), name, Len(st.heap) + 1, <<>>)
    ELSE AfterSwitch(Synthesize(IF Kind(t) = "struct" THEN MarkVisited(st, t) ELSE st,
                                t, name, depth),
                     t, opts)

RegisterModel(st, t, opts, depth) ==
    IF depth > MaxDepth THEN Overflow(st)
    ELSE Dispatch(st, t, opts, depth, getModelName(st.models, t))

(***************************************************************************)
(* The state machine: top-level RegisterModel calls on one API.            *)
(***************************************************************************)
\* the options a caller passes for type t
OptChoices(t) ==
    CASE t = "StringEnum" -> { <<>>, <<WithEnumValues(<<StrVal("A"), StrVal("B")>>)>> }
      [] t = "Pence"      -> { <<>>, <<WithEnumValues(<<NumVal("1"), NumVal("2")>>)>> }
      [] t = "D"          -> { <<>>, <<WithDescription("opt")>> }
      [] OTHER            -> { <<>> }

\* the types callers register
TopTypes ==
    TypeIds \ {"string", "int64", "float64", "*string", "[]string", "map[string]Pence",
               "[]Bad", "*D", "Q", "struct { B string }",
               "struct { In struct { A string } }", "Broken", "*Broken", "Cracked",
               "Holder"}

\* no helper function is applied on its own
NoApplication == [op |-> "none", in |-> <<>>, out |-> <<>>, done |-> TRUE]

Init ==
    /\ models = EmptyMap
    /\ visitedModels = {}
    /\ heap = <<>>
    /\ comments = {}
    /\ calls = <<>>
    /\ crashed = FALSE
    /\ hookOn \in BOOLEAN
    /\ applied = NoApplication

\* one top-level api.RegisterModel(model, opts...) call, the limit-th at most
Call(t, opts, limit) ==
    /\ ~crashed
    /\ Len(calls) < limit
    /\ \E r \in {RegisterModel([models |-> models, visited |-> visitedModels,
                                  heap |-> heap, comments |-> comments,
                                  lookups |-> <<>>, over |-> FALSE], t, opts, 1)} :
           /\ crashed' = r.st.over
           /\ models' = IF r.st.over THEN models ELSE r.st.models
           /\ visitedModels' = IF r.st.over THEN visitedModels ELSE r.st.visited
           /\ heap' = IF r.st.over THEN heap ELSE r.st.heap
           /\ comments' = IF r.st.over THEN comments ELSE r.st.comments
           /\ calls' = Append(calls,
                  [t |-> t, opts |-> opts, name |-> r.name, schema |-> r.schema,
                   err |-> r.err, before |-> models, visitedBefore |-> visitedModels,
                   lookups |-> r.st.lookups])
    /\ UNCHANGED <<hookOn, applied>>

Register(t, opts) == Call(t, opts, MaxCalls)

Next == \E t \in TopTypes : \E opts \in OptChoices(t) : Register(t, opts)

Spec == Init /\ [][Next]_vars

(***************************************************************************)
(* A second specification: longer call sequences over the few types that   *)
(* decide how names of unnamed types are given out.                        *)
(***************************************************************************)
NamingTypes ==
    {"D", "Q", "struct { A string }", "struct { B string }",
     "struct { In struct { A string } }", "func()", "map[int64]string"}

RegisterNaming(t) == Call(t, <<>>, MaxNamingCalls)

NextNaming == \E t \in NamingTypes : RegisterNaming(t)

SpecNaming == Init /\ [][NextNaming]_vars

(***************************************************************************)
(* A third specification: the helper functions applied on their own, to    *)
(* inputs drawn from bounded sets.                                         *)
(***************************************************************************)
\* the longest string the pattern of a set tag is tried on
MaxStrLen == 4

\* the tag values of the universe
MinimumTags == {"", "0", "x"}

MaximumTags == {"", "255", "9.9999", "x"}

MinLengthTags == {"", "2", "-1", "x"}

MaxLengthTags == {"", "5", "x"}

EnumsTags == { <<>>, <<"1", "2">>, <<"1", "x", "3">>, <<"foo", "bar">> }

\* set:"f,b" and set:"f.b"
SetTags == { <<>>, <<"f", ",", "b">>, <<"f", ".", "b">> }

\* the types of the tagged fields
TaggedTypes == {"string", "int64", "float64", "*string"}

TaggedFields ==
    { Tagged(Field("F", t, "f", FALSE, FALSE, enums), mn, mx, mnl, mxl, set) :
        t \in TaggedTypes, enums \in EnumsTags, mn \in MinimumTags, mx \in MaximumTags,
        mnl \in MinLengthTags, mxl \in MaxLengthTags, set \in SetTags }

\* the schema RegisterModel hands to WithPropsFromStructTags for a field of type t
FieldSchemaOf(t) ==
    CASE Kind(t) = "string"  -> NewStringSchema
      [] Kind(t) \in IntKinds -> NewIntegerSchema
      [] Kind(t) \in {"float64", "float32"} -> NewFloat64Schema
      [] Kind(t) = "ptr"     -> [NewStringSchema EXCEPT !.nullable = TRUE]

TagInputs == { [op |-> "tags", in |-> f, out |-> <<>>, done |-> FALSE] : f \in TaggedFields }

\* the longest line of a comment, in words, and the most lines
MaxLineLen == 3

MaxLines == 2

\* the words and the whitespace comments are made of
CommentTokens == {"Deprecated:", "deprecated", "x", " "}

CommentLines == UNION { [1..k -> CommentTokens] : k \in 0..MaxLineLen }

\* strings.Split(comment, "\n") of the comments of the universe
Comments ==
    { [text |-> "", lines |-> ls] :
        ls \in UNION { [1..n -> CommentLines] : n \in 1..MaxLines } }

DeprecationInputs ==
    { [op |-> "deprecated", in |-> c, out |-> <<>>, done |-> FALSE] : c \in Comments }

\* the names and schemas getSchemaReferenceOrValue is applied to
RefNames == {"string", "int64", "Pence", "A", "map_string_Pence"}

RefSchemas ==
    { [NewSchema(type) EXCEPT !.addl = addl, !.enum = enum, !.nullable = nullable] :
        type \in {"object", "array", "string", "integer"},
        addl \in {NoRef, [ref |-> "", val |-> 2], [ref |-> RefPrefix \o "Pence", val |-> NilSchema]},
        enum \in { <<>>, <<StrVal("A")>>, <<NumVal("1"), NumVal("2")>> },
        nullable \in BOOLEAN }

RefInputs ==
    { [op |-> "refOrValue", in |-> [name |-> n, schema |-> sc], out |-> <<>>, done |-> FALSE] :
        n \in RefNames, sc \in RefSchemas }

PureInputs == TagInputs \cup DeprecationInputs \cup RefInputs

InitPure ==
    /\ models = EmptyMap
    /\ visitedModels = {}
    /\ heap = <<>>
    /\ comments = {}
    /\ calls = <<>>
    /\ crashed = FALSE
    /\ hookOn = FALSE
    /\ applied \in PureInputs

\* WithPropsFromStructTags(f.Tag, fieldType, fieldSchema)
ApplyTags ==
    /\ applied.op = "tags" /\ ~applied.done
    /\ applied' = [applied EXCEPT
                     !.out = WithPropsFromStructTags(applied.in, applied.in.type,
                                                     FieldSchemaOf(applied.in.type)),
                     !.done = TRUE]
    /\ UNCHANGED <<models, visitedModels, heap, comments, calls, crashed, hookOn>>

\* deprecated = isMarkedAsDeprecated(comment)
ApplyDeprecated ==
    /\ applied.op = "deprecated" /\ ~applied.done
    /\ applied' = [applied EXCEPT !.out = isMarkedAsDeprecated(applied.in), !.done = TRUE]
    /\ UNCHANGED <<models, visitedModels, heap, comments, calls, crashed, hookOn>>

\* getSchemaReferenceOrValue(name, schema), the schema at address 1 of a heap of its own
ApplyRefOrValue ==
    /\ applied.op = "refOrValue" /\ ~applied.done
    /\ applied' = [applied EXCEPT
                     !.out = getSchemaReferenceOrValue(<< applied.in.schema, NewIntegerSchema >>,
                                                       applied.in.name, 1),
                     !.done = TRUE]
    /\ UNCHANGED <<models, visitedModels, heap, comments, calls, crashed, hookOn>>

NextPure == ApplyTags \/ ApplyDeprecated \/ ApplyRefOrValue

SpecPure == InitPure /\ [][NextPure]_vars

(***************************************************************************)
(* A fourth specification: register calls on the primitive types, bare or  *)
(* behind a pointer, with options that give them enum values, and on the   *)
(* types whose fields do so by tags.                                       *)
(***************************************************************************)
PrimitiveTypes ==
    {"string", "int64", "float64", "*string", "[]string", "StringEnum", "WithEnums"}

\* the options a caller passes for a primitive or named scalar type
PrimitiveOptChoices(t) ==
    CASE t \in {"string", "*string", "StringEnum"} ->
            { <<>>, <<WithEnumValues(<<StrVal("A"), StrVal("B")>>)>>, <<WithNullable>> }
      [] t \in {"int64", "float64"} ->
            { <<>>, <<WithEnumValues(<<NumVal("1"), NumVal("2")>>)>> }
      [] OTHER -> { <<>> }

RegisterPrimitive(t, opts) == Call(t, opts, MaxCalls)

NextPrimitives ==
    \E t \in PrimitiveTypes : \E opts \in PrimitiveOptChoices(t) : RegisterPrimitive(t, opts)

SpecPrimitives == Init /\ [][NextPrimitives]_vars

(***************************************************************************)
(* A fifth specification: register calls on records of a package whose     *)
(* comments load, of a package whose comments do not, and of no package.   *)
(***************************************************************************)
CommentedTypes ==
    {"A", "B", "D", "WithMaps", "Time", "struct { A string }", "Broken", "*Broken",
     "Cracked", "Holder"}

RegisterCommented(t) == Call(t, <<>>, MaxCalls)

NextComments == \E t \in CommentedTypes : RegisterCommented(t)

SpecComments == Init /\ [][NextComments]_vars

(***************************************************************************)
(* What the claims speak of.                                               *)
(***************************************************************************)
Last == calls[Len(calls)]

Returned == Len(calls) > 0 /\ ~crashed

Succeeded == Returned /\ Last.err = <<>>

IsPrimitiveName(name) == Contains(reflectPrimitives, name)

\* the definitions entry a symbolic reference names, "" if it is none
RefTarget(ref) ==
    IF \E n \in DOMAIN models : ref.ref = RefPrefix \o n
    THEN CHOOSE n \in DOMAIN models : ref.ref = RefPrefix \o n
    ELSE ""

IsSymbolic(ref) == ref.ref # "" /\ ref.val = NilSchema

IsInline(ref) == ref.ref = "" /\ ref.val # NilSchema

\* the property names the field walk gives a struct for its own fields
OwnProps(t) ==
    { (IF Types[t].fields[i].json = "" THEN Types[t].fields[i].name
       ELSE Types[t].fields[i].json) :
        i \in {j \in 1..Len(Types[t].fields) : ~Types[t].fields[j].anonymous} }

\* the successors of a type in the type graph
Succ(t) ==
    CASE Kind(t) \in {"ptr", "slice", "array"} -> {Elem(t)}
      [] Kind(t) = "map"    -> {Types[t].key, Elem(t)}
      [] Kind(t) = "struct" -> {Types[t].fields[i].type : i \in 1..Len(Types[t].fields)}
      [] OTHER -> {}

RECURSIVE ReachFrom(_, _)
ReachFrom(seen, frontier) ==
    IF frontier \subseteq seen THEN seen
    ELSE ReachFrom(seen \cup frontier, UNION {Succ(u) : u \in frontier})

\* the type graph of t
TypeGraph(t) == ReachFrom({}, {t})

RECURSIVE ReachAvoiding(_, _)
ReachAvoiding(seen, frontier) ==
    LET f == {u \in frontier : Kind(u) # "struct"}
    IN  IF f \subseteq seen THEN seen
        ELSE ReachAvoiding(seen \cup f, UNION {Succ(u) : u \in f})

\* some cycle of t's type graph passes through no struct type
HasStructFreeCycle(t) ==
    \E u \in TypeGraph(t) :
        Kind(u) # "struct" /\ u \in ReachAvoiding({}, Succ(u))

\* api.models as call i left it
After(i) == IF i = Len(calls) THEN models ELSE calls[i + 1].before

\* what call i was answered from
IsMemoCall(c) == MemoHit(c.before, getModelName(c.before, c.t))

IsKnownCall(c) == ~IsMemoCall(c) /\ c.t \in DOMAIN KnownTypes

IsPlaceholderCall(c) ==
    ~IsMemoCall(c) /\ ~IsKnownCall(c) /\ Kind(c.t) = "struct" /\ c.t \in c.visitedBefore

IsSynthCall(c) == ~IsMemoCall(c) /\ ~IsKnownCall(c) /\ ~IsPlaceholderCall(c)

(***************************************************************************)
(* C1.  Two successive successful register calls on the same type          *)
(* descriptor (a named record, an anonymous record, a named scalar given   *)
(* enum values, or a pointer to one of these) return the same name and the *)
(* same schema node, and the second call adds no entry to definitions.     *)
(***************************************************************************)
C1Case(c) ==
    LET base == IF Kind(c.t) = "ptr" THEN Elem(c.t) ELSE c.t
    IN  /\ base \notin DOMAIN KnownTypes
        /\ \/ Kind(base) = "struct"
           \/ \E k \in 1..Len(c.opts) : c.opts[k].op = "EnumValues"

C1_RegisterTwiceSame ==
    \A i \in 1..(Len(calls) - 1) :
        ( /\ calls[i].t = calls[i + 1].t
          /\ calls[i].opts = calls[i + 1].opts
          /\ calls[i].err = <<>>
          /\ calls[i + 1].err = <<>>
          /\ C1Case(calls[i]) )
        => /\ calls[i].name = calls[i + 1].name
           /\ calls[i].schema = calls[i + 1].schema
           /\ DOMAIN After(i + 1) = DOMAIN calls[i + 1].before

(***************************************************************************)
(* C2.  A register call returns on every finite type graph, whatever       *)
(* cycles it has.  As stated: no call ends in unbounded recursion.         *)
(***************************************************************************)
C2_EveryCallReturns == ~crashed

\* C2 as amended: a register call returns on every type graph in which
\* every cycle passes through a record (struct) type; only a cycle made of
\* named slice, map or pointer types alone recurses without end.
C2_ReturnsWhenCyclesPassRecords ==
    /\ crashed => HasStructFreeCycle(Last.t)
    /\ \A i \in 1..Len(calls) :
          ~HasStructFreeCycle(calls[i].t) => calls[i].err # <<"stack overflow">>

\* a record on a cycle of records was synthesised in full and the call returned
C2_CyclicRecordReturned ==
    /\ Succeeded
    /\ Kind(Last.t) = "struct"
    /\ Last.t \in ReachFrom({}, Succ(Last.t))
    /\ IsSynthCall(Last)
    /\ Last.name \in DOMAIN models

(***************************************************************************)
(* Vocabulary of the claims about fields.                                  *)
(***************************************************************************)
\* the canonical name of a named type
NameOf(t) == getModelName(models, t)

FieldsOf(t) == {Types[t].fields[i] : i \in 1..Len(Types[t].fields)}

\* the exported fields that are not embedded
PlainFields(t) == {f \in FieldsOf(t) : f.exported /\ ~f.anonymous}

\* the fields embedded by value
EmbeddedFields(t) ==
    {f \in FieldsOf(t) : f.exported /\ f.anonymous /\ Kind(f.type) = "struct"}

\* the property names base synthesis gives a struct: its own and the spliced ones
RECURSIVE AllProps(_)
AllProps(t) ==
    OwnProps(t) \cup
    UNION {AllProps(IF Kind(f.type) = "ptr" THEN Elem(f.type) ELSE f.type) :
             f \in {g \in FieldsOf(t) : g.exported /\ g.anonymous}}

\* the schema the latest call returned
LastSchema == heap[Last.schema]

\* the property the latest call's schema has for field f
PropOf(f) == LastSchema.props[FieldName(f)]

SymbolicRef(name) == [ref |-> RefPrefix \o name, val |-> NilSchema]

(***************************************************************************)
(* C3.  After a successful register of record A, where A has a pointer     *)
(* field of record B and B a pointer field of A, definitions holds one     *)
(* entry for A and one for B, each with the record's full set of           *)
(* properties, and the B-typed property of A and the A-typed property of B *)
(* are symbolic references by name.                                        *)
(***************************************************************************)
MutualOptional(a, b) ==
    /\ Kind(a) = "struct" /\ Kind(b) = "struct"
    /\ \E f \in PlainFields(a) : Kind(f.type) = "ptr" /\ Elem(f.type) = b
    /\ \E g \in PlainFields(b) : Kind(g.type) = "ptr" /\ Elem(g.type) = a

FullEntry(t) ==
    /\ NameOf(t) \in DOMAIN models
    /\ DOMAIN heap[models[NameOf(t)]].props = AllProps(t)

RefersTo(t, u) ==
    \A f \in PlainFields(t) :
        (Kind(f.type) = "ptr" /\ Elem(f.type) = u)
        => /\ FieldName(f) \in DOMAIN heap[models[NameOf(t)]].props
           /\ heap[models[NameOf(t)]].props[FieldName(f)] = SymbolicRef(NameOf(u))

C3_MutualRecordsRegistered ==
    \A b \in TypeIds :
        (Succeeded /\ MutualOptional(Last.t, b))
        => /\ FullEntry(Last.t)
           /\ FullEntry(b)
           /\ RefersTo(Last.t, b)
           /\ RefersTo(b, Last.t)

(***************************************************************************)
(* C4.  When record C embeds record D by value and D had no definitions    *)
(* entry before, then after register(C) every property of D is a property  *)
(* of C under the same name, C has no property named after D, definitions  *)
(* has no entry for D, and every name D requires is in the required list   *)
(* base synthesis builds for C.                                            *)
(***************************************************************************)
C4_EmbeddedRecordSpliced ==
    \A f \in (IF Succeeded /\ Kind(Last.t) = "struct" THEN EmbeddedFields(Last.t) ELSE {}) :
        NameOf(f.type) \notin DOMAIN Last.before
        => /\ AllProps(f.type) \subseteq DOMAIN LastSchema.props
           /\ NameOf(f.type) \notin DOMAIN LastSchema.props
           /\ NameOf(f.type) \notin DOMAIN models
           /\ SeqToSet(CustomOf(f.type).required) \subseteq SeqToSet(LastSchema.baseRequired)

(***************************************************************************)
(* C5.  Every record field whose resolved schema has a non-empty enum      *)
(* list, from an option given when the field's type was registered or from *)
(* the field's own enums tag, is in the record's schema a symbolic         *)
(* reference to a definition that exists, never an inline schema.          *)
(***************************************************************************)
\* the kind WithPropsFromStructTags switches on
TagKind(t) == IF Kind(t) = "ptr" THEN Kind(Elem(t)) ELSE Kind(t)

\* the field's enums tag puts values on its schema
HasTagEnum(f) == f.enums # <<>> /\ TagKind(FieldType(f)) \in IntKinds \cup {"string"}

\* the field's type was stored with enum values before the latest call
HasOptionEnum(f) ==
    /\ MemoHit(Last.before, NameOf(FieldType(f)))
    /\ heap[Last.before[NameOf(FieldType(f))]].enum # <<>>

\* the fields of the record the latest call synthesised whose schema has enum values
EnumFields ==
    IF Succeeded /\ Kind(Last.t) = "struct" /\ IsSynthCall(Last)
    THEN {f \in PlainFields(Last.t) : HasTagEnum(f) \/ HasOptionEnum(f)}
    ELSE {}

IntMapFields ==
    IF Succeeded /\ Kind(Last.t) = "struct" /\ IsSynthCall(Last)
    THEN {f \in PlainFields(Last.t) :
            /\ Kind(FieldType(f)) = "map"
            /\ Kind(Types[FieldType(f)].key) = "string"
            /\ Kind(Elem(FieldType(f))) \in IntKinds}
    ELSE {}

InlineNullableObject(p) ==
    /\ IsInline(p)
    /\ heap[p.val].type = "object"
    /\ heap[p.val].nullable

C6_IntMapInline ==
    \A f \in IntMapFields :
        /\ NameOf(FieldType(f)) \notin DOMAIN models
        /\ InlineNullableObject(PropOf(f))
        /\ IsInline(heap[PropOf(f).val].addl)
        /\ heap[heap[PropOf(f).val].addl.val].type = "integer"

\* C6 as amended: no definitions entry is added for the map type and the
\* property is an inline nullable object schema; its additionalProperties
\* slot holds the inline integer schema of the value type unless the value
\* type was stored in definitions before (a named integer type registered
\* with enum values), and then it holds the symbolic reference to it.
C6_IntMapInlineUnlessValueStored ==
    \A f \in IntMapFields :
        /\ NameOf(FieldType(f)) \notin DOMAIN models
        /\ InlineNullableObject(PropOf(f))
        /\ IF MemoHit(Last.before, NameOf(Elem(FieldType(f))))
           THEN heap[PropOf(f).val].addl = SymbolicRef(NameOf(Elem(FieldType(f))))
           ELSE /\ IsInline(heap[PropOf(f).val].addl)
                /\ heap[heap[PropOf(f).val].addl.val].type = "integer"

\* a record with such a field was synthesised and the slot holds the inline integer schema
C6_IntMapRegistered ==
    \E f \in IntMapFields :
        /\ InlineNullableObject(PropOf(f))
        /\ IsInline(heap[PropOf(f).val].addl)
        /\ heap[heap[PropOf(f).val].addl.val].type = "integer"

(***************************************************************************)
(* C7.  In every register call that synthesises a schema, the stages run   *)
(* on it in this order: the global callback if configured, the type's own  *)
(* customisation, the call's options in the order given; all after base    *)
(* synthesis and before the decision to store, so that a scalar attribute  *)
(* set by an option overrides the value either hook set.                   *)
(***************************************************************************)
\* the stages one call applies, in the order the claim gives
StagesOf(t, opts) ==
    (IF hookOn THEN << <<"global", t>> >> ELSE <<>>)
    \o (IF CustomOf(t).on THEN << <<"self", t>> >> ELSE <<>>)
    \o [k \in 1..Len(opts) |-> <<"opt", opts[k].op>>]

IsSuffix(e, s) == Len(e) <= Len(s) /\ SubSeq(s, Len(s) - Len(e) + 1, Len(s)) = e

\* the latest call synthesised a schema and returned it
Synthesised == Succeeded /\ IsSynthCall(Last) /\ Last.schema # NilSchema

C7_StagesInOrder ==
    Synthesised
    => /\ IsSuffix(StagesOf(Last.t, Last.opts), LastSchema.stages)
       /\ Kind(Last.t) # "ptr" => LastSchema.stages = StagesOf(Last.t, Last.opts)
       /\ \A k \in 1..Len(Last.opts) :
             Last.opts[k].op = "Description" => LastSchema.desc = Last.opts[k].desc
       /\ (Last.name \in DOMAIN models /\ models[Last.name] = Last.schema)
             <=> (~IsPrimitiveName(Last.name) /\ shouldBeReferenced(LastSchema))

\* both hooks and an option ran on a freshly synthesised record, the option last
C7_AllStagesRan ==
    /\ Synthesised
    /\ hookOn
    /\ CustomOf(Last.t).on
    /\ Last.opts # <<>>
    /\ Len(LastSchema.stages) = 3
    /\ LastSchema.desc = "opt"

(***************************************************************************)
(* C8.  For every type T that registers successfully, register of          *)
(* pointer-to-T returns the canonical name register of T returns and a     *)
(* schema whose nullable flag is true, whether or not T was registered     *)
(* earlier in the session.                                                 *)
(***************************************************************************)
C8_PointerIsNullable ==
    (Succeeded /\ Kind(Last.t) = "ptr")
    => /\ Last.name = getModelName(Last.before, Elem(Last.t))
       /\ LastSchema.nullable

(***************************************************************************)
(* C9.  A register call made directly on a map type whose key kind is not  *)
(* string, or on a type whose kind has no synthesis branch, returns an     *)
(* error and leaves definitions unchanged.                                 *)
(***************************************************************************)
\* the kinds the switch of RegisterModel has no case for
UnsupportedKinds == {"func", "chan", "interface", "complex64", "complex128"}

IsUnsupported(t) ==
    \/ Kind(t) \in UnsupportedKinds
    \/ Kind(t) = "map" /\ Kind(Types[t].key) # "string"

C9_UnsupportedTypeFails ==
    (Returned /\ IsUnsupported(Last.t))
    => /\ Last.err # <<>>
       /\ models = Last.before

(***************************************************************************)
(* C10.  In every reachable registry state, a register call on a record    *)
(* type that contains, at any depth through fields, slice elements, map    *)
(* values or pointers, a field of unsupported kind or a map with a         *)
(* non-string key returns an error.                                        *)
(***************************************************************************)
ContainsUnsupported(t) == \E u \in TypeGraph(t) : IsUnsupported(u)

C10_UnsupportedFieldFails ==
    (Returned /\ Kind(Last.t) = "struct" /\ ContainsUnsupported(Last.t))
    => Last.err # <<>>

(***************************************************************************)
(* C11.  If register of type T fails with error e, then register of        *)
(* pointer-to-T fails with an error that is e or wraps e: the original     *)
(* cause is not replaced by a different error.                             *)
(***************************************************************************)
C11_PointerKeepsCause ==
    \A i \in 1..(Len(calls) - 1) :
        ( /\ calls[i].err # <<>>
          /\ Kind(calls[i + 1].t) = "ptr"
          /\ Elem(calls[i + 1].t) = calls[i].t )
        => /\ calls[i + 1].err # <<>>
           /\ IsSuffix(calls[i].err, calls[i + 1].err)

(***************************************************************************)
(* Vocabulary of the claims about struct tags.                             *)
(***************************************************************************)
\* WithPropsFromStructTags was applied to a field
TagsApplied == applied.op = "tags" /\ applied.done

\* the kind the tags of the field are read for
AppliedKind == TagKind(applied.in.type)

\* the characters the strings tried on a pattern are made of
Alphabet == {"f", "b", "z", ",", " "}

Strings == UNION { [1..k -> Alphabet] : k \in 0..MaxStrLen }

\* the alternatives of the first group of a pattern ^(a1|...|ak)(, {0,1}(a1|...|ak))*$
Alternatives(pattern) ==
    Split(SubSeq(pattern, 3,
                 (CHOOSE i \in 3..Len(pattern) :
                     pattern[i] = ")" /\ \A j \in 3..(i - 1) : pattern[j] # ")") - 1),
          "|")

\* a regular expression without operators, where . stands for any character,
\* matches a prefix of str
MatchesPrefix(alt, str) ==
    /\ Len(alt) <= Len(str)
    /\ \A i \in 1..Len(alt) : alt[i] = "." \/ alt[i] = str[i]

\* the pattern with alternatives alts matches the whole of str
RECURSIVE Accepts(_, _)
Accepts(alts, str) ==
    \E k \in 1..Len(alts) :
        /\ MatchesPrefix(alts[k], str)
        /\ \/ Len(str) = Len(alts[k])
           \/ /\ Len(str) > Len(alts[k]) + 1
              /\ str[Len(alts[k]) + 1] = ","
              /\ \/ Accepts(alts, SubSeq(str, Len(alts[k]) + 2, Len(str)))
                 \/ /\ str[Len(alts[k]) + 2] = " "
                    /\ Accepts(alts, SubSeq(str, Len(alts[k]) + 3, Len(str)))

\* str is a non-empty sequence of tokens, separated by a comma and at most one space
RECURSIVE InLanguage(_, _)
InLanguage(tokens, str) ==
    \E k \in 1..Len(tokens) :
        /\ IsPrefix(tokens[k], str)
        /\ \/ Len(str) = Len(tokens[k])
           \/ /\ Len(str) > Len(tokens[k]) + 1
              /\ str[Len(tokens[k]) + 1] = ","
              /\ \/ InLanguage(tokens, SubSeq(str, Len(tokens[k]) + 2, Len(str)))
                 \/ /\ str[Len(tokens[k]) + 2] = " "
                    /\ InLanguage(tokens, SubSeq(str, Len(tokens[k]) + 3, Len(str)))

(***************************************************************************)
(* C12.  For a string field tagged minLength m and maxLength n (decimal    *)
(* integers) the schema has minLength = m and maxLength = n exactly; for a *)
(* string field tagged set "t1,...,tk" the pattern is                      *)
(* ^(t1|...|tk)(, {0,1}(t1|...|tk))*$ and accepts exactly the non-empty    *)
(* sequences of allowed tokens separated by a comma and at most one space. *)
(***************************************************************************)
C12_LengthsAndSetPattern ==
    (TagsApplied /\ AppliedKind = "string")
    => /\ Atoi(applied.in.minLength).ok
             => applied.out.minLength = [k |-> "uint64", wrapped |-> FALSE,
                                         v |-> Atoi(applied.in.minLength).v]
       /\ Atoi(applied.in.maxLength).ok
             => applied.out.maxLength = [k |-> "uint64", wrapped |-> FALSE,
                                         v |-> Atoi(applied.in.maxLength).v]
       /\ applied.in.set # <<>>
             => /\ applied.out.pattern = SetPattern(applied.in.set)
                /\ \A str \in Strings :
                      Accepts(Alternatives(applied.out.pattern), str)
                          <=> InLanguage(Split(applied.in.set, ","), str)

(***************************************************************************)
(* C13.  When one tag constraint value of a field cannot be parsed (a      *)
(* minimum, a maximum, a minLength, a maxLength or one element of an enums *)
(* list), that one value is absent from the resulting schema (the enum     *)
(* list holds only the values that parsed, with no empty or null stand-in) *)
(* and every other well-formed constraint of the field is applied.         *)
(***************************************************************************)
\* the bitlength WithPropsFromStructTags passes for a kind
BitlengthOf(kind) == CASE kind = "float32" -> 32 [] kind = "float64" -> 64 [] OTHER -> 0

IsParsed(r) == r.ok

\* the values of the elements of an enums tag that parse, in order
ParsedEnum(enum, bitlength) ==
    LET kept == SelectSeq([i \in 1..Len(enum) |-> IntOrFloatToFloat(enum[i], bitlength)],
                          IsParsed)
    IN  [i \in 1..Len(kept) |-> kept[i].v]

\* the value of a minimum or maximum tag, nil when it is empty or does not parse
ParsedBound(tag, bitlength) ==
    IF tag # "" /\ IntOrFloatToFloat(tag, bitlength).ok
    THEN IntOrFloatToFloat(tag, bitlength).v
    ELSE NilVal

C13_UnparsedConstraintSkipped ==
    TagsApplied
    => /\ AppliedKind \in IntKinds \cup {"float32", "float64"}
             => /\ applied.out.min = ParsedBound(applied.in.minimum, BitlengthOf(AppliedKind))
                /\ applied.out.max = ParsedBound(applied.in.maximum, BitlengthOf(AppliedKind))
                /\ applied.out.enum = ParsedEnum(applied.in.enums, BitlengthOf(AppliedKind))
       /\ AppliedKind = "string"
             => /\ ~Atoi(applied.in.minLength).ok => applied.out.minLength = UInt64(0)
                /\ ~Atoi(applied.in.maxLength).ok => applied.out.maxLength = NilVal
                /\ applied.out.enum = [i \in 1..Len(applied.in.enums) |->
                                          StrVal(applied.in.enums[i])]

(***************************************************************************)
(* C14.  A schema is marked deprecated exactly when some line of its       *)
(* looked-up comment, after trimming leading whitespace, begins with the   *)
(* literal token Deprecated: ; a comment that has Deprecated: only in the  *)
(* middle of a line, or the word deprecated elsewhere, does not mark it.   *)
(***************************************************************************)
\* the first word of the line that is not whitespace is the marker
BeginsWithMarker(line) ==
    \E k \in 1..Len(line) :
        /\ line[k] = "Deprecated:"
        /\ \A j \in 1..(k - 1) : line[j] = " "

DeprecationLookedUp == applied.op = "deprecated" /\ applied.done

C14_DeprecatedIffLineBegins ==
    DeprecationLookedUp
    => (applied.out <=> \E i \in 1..Len(applied.in.lines) :
                            BeginsWithMarker(applied.in.lines[i]))

\* a comment whose second line begins, after whitespace, with the marker was marked
C14_SecondLineMarks ==
    /\ DeprecationLookedUp
    /\ Len(applied.in.lines) = 2
    /\ ~BeginsWithMarker(applied.in.lines[1])
    /\ applied.in.lines[2] = <<" ", "Deprecated:", "x">>
    /\ applied.out = TRUE

(***************************************************************************)
(* C15.  getSchemaReferenceOrValue(name, schema) returns a symbolic        *)
(* reference with no inline value exactly when name is not a reserved      *)
(* primitive name and the schema is object-kind with no                    *)
(* additionalProperties schema or has a non-empty enum list; in every      *)
(* other case it returns the inline schema with an empty reference; it     *)
(* never returns both a reference and a value.                             *)
(***************************************************************************)
RefOrValueApplied == applied.op = "refOrValue" /\ applied.done

\* the case in which the claim has a reference returned
IsReferenceable(name, schema) ==
    /\ ~IsPrimitiveName(name)
    /\ \/ schema.type = "object" /\ schema.addl.ref = "" /\ schema.addl.val = NilSchema
       \/ schema.enum # <<>>

C15_ReferenceOrValue ==
    RefOrValueApplied
    => /\ IF IsReferenceable(applied.in.name, applied.in.schema)
          THEN applied.out = SymbolicRef(applied.in.name)
          ELSE applied.out = [ref |-> "", val |-> 1]
       /\ IsSymbolic(applied.out) \/ IsInline(applied.out)
       /\ ~(applied.out.ref # "" /\ applied.out.val # NilSchema)

\* a scalar schema with enum values under a name that is not reserved came back as a reference
C15_EnumScalarReferenced ==
    /\ RefOrValueApplied
    /\ applied.in.schema.type = "integer"
    /\ applied.in.schema.enum # <<>>
    /\ applied.in.name = "Pence"
    /\ applied.out = SymbolicRef("Pence")

(***************************************************************************)
(* C16.  Base synthesis never infers requiredness: a name enters the       *)
(* required list of a record only through a customisation stage of that    *)
(* record or by being copied from the required list of a record it embeds; *)
(* with no customisation configured every required list is empty.          *)
(***************************************************************************)
\* the type an embedded field splices
EmbeddedBase(f) == IF Kind(f.type) = "ptr" THEN Elem(f.type) ELSE f.type

\* the names the required lists of the records t embeds can hold
RECURSIVE CopiedRequired(_)
CopiedRequired(t) ==
    UNION { SeqToSet(CustomOf(EmbeddedBase(f)).required) \cup CopiedRequired(EmbeddedBase(f)) :
              f \in {g \in FieldsOf(t) : g.exported /\ g.anonymous} }

\* the names some customisation of the universe requires
CustomRequired ==
    UNION { SeqToSet(Types[t].custom.required) : t \in {u \in TypeIds : Types[u].custom.on} }

C16_RequiredOnlyFromCustomisation ==
    /\ \A n \in 1..Len(heap) :
          /\ SeqToSet(heap[n].required) \subseteq CustomRequired
          /\ SeqToSet(heap[n].baseRequired) \subseteq CustomRequired
    /\ (Synthesised /\ Kind(Last.t) = "struct")
          => /\ SeqToSet(LastSchema.baseRequired) \subseteq CopiedRequired(Last.t)
             /\ SeqToSet(LastSchema.required)
                    \subseteq SeqToSet(CustomOf(Last.t).required) \cup CopiedRequired(Last.t)
             /\ ~CustomOf(Last.t).on => LastSchema.required = LastSchema.baseRequired

\* a record with an omit-when-empty field and an embedded record that requires X
\* was synthesised: X was copied, the record's own fields are not required
C16_OnlyCopiedRequired ==
    /\ Synthesised
    /\ Kind(Last.t) = "struct"
    /\ \E f \in PlainFields(Last.t) : f.omitempty
    /\ EmbeddedFields(Last.t) # {}
    /\ LastSchema.required = <<"X">>
    /\ OwnProps(Last.t) \cap SeqToSet(LastSchema.required) = {}

(***************************************************************************)
(* C17.  Within one session every anonymous record type that is            *)
(* registered, at top level or as the type of a field, gets a name         *)
(* AnonymousType<N> that no other type registered in the session has, so   *)
(* that no definitions entry written for one type is overwritten by, or    *)
(* returned for, a different type.                                         *)
(***************************************************************************)
IsAnonymousRecord(t) == Kind(t) = "struct" /\ Types[t].name = <<>>

C17_AnonymousNamesUnique ==
    /\ \A i \in 1..Len(calls) : \A j \in 1..Len(calls) :
          ( /\ calls[i].t # calls[j].t
            /\ IsAnonymousRecord(calls[i].t)
            /\ calls[i].err = <<>>
            /\ calls[j].err = <<>> )
          => calls[i].name # calls[j].name
    /\ \A f \in (IF Succeeded /\ Kind(Last.t) = "struct" THEN PlainFields(Last.t) ELSE {}) :
          (IsAnonymousRecord(f.type) /\ f.type # Last.t)
          => PropOf(f) # SymbolicRef(Last.name)

(***************************************************************************)
(* C18.  If record D has a definitions entry before record C is            *)
(* registered, and C embeds D by value or through a pointer, then after    *)
(* register(C) the entry for D is still present.                           *)
(***************************************************************************)
C18_ExistingEmbeddedKept ==
    \A f \in (IF Succeeded /\ Kind(Last.t) = "struct"
              THEN {g \in FieldsOf(Last.t) : g.exported /\ g.anonymous}
              ELSE {}) :
        NameOf(EmbeddedBase(f)) \in DOMAIN Last.before
        => NameOf(EmbeddedBase(f)) \in DOMAIN models

(***************************************************************************)
(* C19.  Once a schema is stored in definitions, no later register call    *)
(* changes any attribute of that stored schema: not a repeated register of *)
(* the type with other options, not a register of a pointer to it, not the *)
(* registration of a record with a field of that type that has constraint  *)
(* tags or the omit-when-empty tag.                                        *)
(***************************************************************************)
\* the attributes of a schema, without the history fields
Attributes(s) ==
    [type |-> s.type, nullable |-> s.nullable, props |-> s.props,
     required |-> s.required, enum |-> s.enum, addl |-> s.addl, items |-> s.items,
     desc |-> s.desc, deprecated |-> s.deprecated, format |-> s.format,
     min |-> s.min, max |-> s.max, minLength |-> s.minLength,
     maxLength |-> s.maxLength, pattern |-> s.pattern]

StoredUnchanged ==
    \A n \in DOMAIN models :
        Attributes(heap'[models[n]]) = Attributes(heap[models[n]])

C19_StoredSchemasFrozen == [][StoredUnchanged]_vars

(***************************************************************************)
(* C20.  For every record field with the omit-when-empty annotation the    *)
(* schema the field resolves to has nullable = true, for every field type  *)
(* (scalar, pointer, known type, record) and whatever was registered       *)
(* earlier in the session.                                                 *)
(***************************************************************************)
\* the omit-when-empty fields of the record the latest call synthesised
\* whose property resolves to a schema
OmitEmptyFields ==
    IF Succeeded /\ Kind(Last.t) = "struct" /\ IsSynthCall(Last)
    THEN {f \in PlainFields(Last.t) :
            f.omitempty /\ (IsInline(PropOf(f)) \/ RefTarget(PropOf(f)) # "")}
    ELSE {}

\* the schema a property resolves to
Resolved(p) == IF IsInline(p) THEN heap[p.val] ELSE heap[models[RefTarget(p)]]

C20_OmitEmptyIsNullable ==
    \A f \in OmitEmptyFields : Resolved(PropOf(f)).nullable

(***************************************************************************)
(* C21.  After every top-level register call returns, with success or with *)
(* an error, the visiting set (visitedModels) is empty, so that no later   *)
(* top-level call on a record type is answered with the cycle placeholder. *)
(***************************************************************************)
C21_VisitingSetEmptied ==
    Returned =>
        /\ visitedModels = {}
        /\ \A i \in 1..Len(calls) : ~IsPlaceholderCall(calls[i])

(***************************************************************************)
(* C22.  After every successful top-level register call, every symbolic    *)
(* reference contained in any definitions entry, and the reference         *)
(* produced for the returned (name, schema) pair, names a key that is      *)
(* present in definitions.                                                 *)
(***************************************************************************)
\* the references a schema holds: its properties, items and additionalProperties
RefsIn(s) == ({s.props[k] : k \in DOMAIN s.props} \cup {s.items, s.addl}) \ {NoRef}

\* the schemas an entry is made of: the stored one and those it holds inline
RECURSIVE NodesFrom(_, _)
NodesFrom(seen, frontier) ==
    IF frontier \subseteq seen THEN seen
    ELSE NodesFrom(seen \cup frontier,
                   UNION { {r.val : r \in {q \in RefsIn(heap[a]) : IsInline(q)}} :
                             a \in frontier })

\* a symbolic reference to a name that definitions does not hold
IsDangling(ref) == IsSymbolic(ref) /\ RefTarget(ref) = ""

C22_ReferencesResolve ==
    Succeeded =>
        /\ \A n \in DOMAIN models :
              \A a \in NodesFrom({}, {models[n]}) :
                  \A r \in RefsIn(heap[a]) : ~IsDangling(r)
        /\ ~IsDangling(getSchemaReferenceOrValue(heap, Last.name, Last.schema))

(***************************************************************************)
(* C23.  A register call that returns an error leaves no definitions entry *)
(* for the type it was called on or for any type whose synthesis did not   *)
(* complete, so that the next register call on such a type does not        *)
(* succeed from memoization.                                               *)
(***************************************************************************)
\* the call returned an error (it did not die of unbounded recursion)
Failed(c) == c.err # <<>> /\ c.err # <<"stack overflow">>

\* the types of call c's type graph whose synthesis cannot complete and
\* that had no entry when the call began
Uncompleted(c) ==
    { u \in TypeGraph(c.t) :
        /\ ContainsUnsupported(u)
        /\ getModelName(c.before, u) \notin DOMAIN c.before }

C23_ErrorLeavesNoEntry ==
    \A i \in 1..Len(calls) :
        Failed(calls[i]) =>
            /\ \A u \in Uncompleted(calls[i]) :
                  getModelName(calls[i].before, u) \notin DOMAIN After(i)
            /\ i < Len(calls) =>
                  ~ ( /\ calls[i + 1].t \in Uncompleted(calls[i])
                      /\ IsMemoCall(calls[i + 1])
                      /\ calls[i + 1].err = <<>> )

(***************************************************************************)
(* C24.  The final definitions map (the set of names and the content of    *)
(* every schema, nullable flags and AnonymousType numbers included) after  *)
(* registering a given set of types is the same for every order in which   *)
(* those types are registered.                                             *)
(***************************************************************************)
\* the registry of a new API
FreshRegistry ==
    [models |-> EmptyMap, visited |-> {}, heap |-> <<>>, comments |-> {},
     lookups |-> <<>>, over |-> FALSE]

\* the calls cs made one after the other on registry st
RECURSIVE Replay(_, _)
Replay(st, cs) ==
    IF cs = <<>> THEN st
    ELSE Replay(RegisterModel(st, Head(cs).t, Head(cs).opts, 1).st, Tail(cs))

\* the content of the schema at address a of heap h, schemas held inline included
RECURSIVE ContentOf(_, _)
ContentOf(h, a) ==
    LET held(r) == [ref |-> r.ref,
                    val |-> IF r.val = NilSchema THEN <<>> ELSE <<ContentOf(h, r.val)>>]
    IN  [Attributes(h[a]) EXCEPT
            !.props = [k \in DOMAIN h[a].props |-> held(h[a].props[k])],
            !.items = held(h[a].items),
            !.addl  = held(h[a].addl)]

\* definitions as a document: name -> schema content
Definitions(st) == [n \in DOMAIN st.models |-> ContentOf(st.heap, st.models[n])]

\* the orders in which n calls can be made
Orders(n) == { p \in [1..n -> 1..n] : \A i, j \in 1..n : p[i] = p[j] => i = j }

Reordered(cs, p) == [i \in 1..Len(cs) |-> cs[p[i]]]

C24_OrderIndependent ==
    ~crashed =>
        \A p \in Orders(Len(calls)) :
            Definitions(Replay(FreshRegistry, Reordered(calls, p)))
                = Definitions([models |-> models, heap |-> heap])

(***************************************************************************)
(* C25.  For each schema node, the global customization callback is        *)
(* applied at most once and the self-customization at most once, and the   *)
(* global callback precedes the self-customization; also when the type is  *)
(* registered through a pointer or the schema is returned from             *)
(* memoization.                                                            *)
(***************************************************************************)
\* the positions at which a stage of the kind was applied to the node
StageAt(s, kind) == {i \in 1..Len(s.stages) : s.stages[i][1] = kind}

C25_HooksOncePerNode ==
    \A a \in 1..Len(heap) :
        /\ Cardinality(StageAt(heap[a], "global")) <= 1
        /\ Cardinality(StageAt(heap[a], "self")) <= 1
        /\ \A i \in StageAt(heap[a], "self") :
              \A j \in StageAt(heap[a], "global") : j < i

(***************************************************************************)
(* C26.  In every reachable registry state, for every object-kind schema   *)
(* stored in definitions, each name in its required list is a key of its   *)
(* own properties map, provided every customization stage only lists names *)
(* of properties of the schema it is given; also when an embedded record's *)
(* properties and required names are spliced into its container.           *)
(***************************************************************************)
\* no customisation so far listed a name that was no property of its schema
StagesListProperties == \A a \in 1..Len(heap) : heap[a].stray = {}

\* the object schemas stored in definitions
StoredObjects == {models[n] : n \in {m \in DOMAIN models : heap[models[m]].type = "object"}}

C26_RequiredAreProperties ==
    StagesListProperties =>
        \A a \in StoredObjects : SeqToSet(heap[a].required) \subseteq DOMAIN heap[a].props

\* a container is stored whose required names were spliced in from an embedded record
C26_SplicedRequired ==
    /\ Succeeded
    /\ StagesListProperties
    /\ EmbeddedFields(Last.t) # {}
    /\ ~CustomOf(Last.t).on
    /\ Last.name \in DOMAIN models
    /\ models[Last.name] = Last.schema
    /\ LastSchema.required # <<>>
    /\ SeqToSet(LastSchema.required) \subseteq DOMAIN LastSchema.props

(***************************************************************************)
(* C27.  In every reachable registry state, no key of definitions is a     *)
(* reserved primitive kind name, whatever options or tags add enum values  *)
(* to a primitive's schema, and a register call on a bare primitive type   *)
(* is never answered from memoization: it returns a schema of its own.     *)
(***************************************************************************)
\* a primitive type under its own name
IsBarePrimitive(t) == Kind(t) \in SeqToSet(reflectPrimitives) /\ Types[t].name = <<Kind(t)>>

\* the schemas definitions held when call c began
StoredBefore(c) == {c.before[n] : n \in DOMAIN c.before}

C27_NoPrimitiveKey ==
    /\ \A n \in DOMAIN models : ~IsPrimitiveName(n)
    /\ \A i \in 1..Len(calls) :
          IsBarePrimitive(calls[i].t) =>
              /\ ~IsMemoCall(calls[i])
              /\ calls[i].err = <<>>
              /\ calls[i].schema \notin StoredBefore(calls[i])
              /\ \A j \in 1..(i - 1) : calls[j].schema # calls[i].schema

\* a bare primitive is registered a second time, with enum values, and nothing is stored for it
C27_EnumPrimitiveTwice ==
    /\ Succeeded
    /\ Len(calls) >= 2
    /\ IsBarePrimitive(Last.t)
    /\ calls[Len(calls) - 1].t = Last.t
    /\ Len(heap[calls[Len(calls) - 1].schema].enum) > 0
    /\ Len(LastSchema.enum) > 0
    /\ shouldBeReferenced(LastSchema)
    /\ Last.name \notin DOMAIN models

(***************************************************************************)
(* C28.  Within one API instance, the comment lookup collaborator is       *)
(* called at most once for each namespace whose lookup succeeds, however   *)
(* many records and fields of that namespace are registered afterwards; a  *)
(* lookup that fails is not cached and its error is returned by the        *)
(* register call that triggered it.                                        *)
(***************************************************************************)
\* the parser.Get calls made so far: <<i, k>> is the k-th of top-level call i
Lookups == {ik \in (1..Len(calls)) \X (1..2 * MaxDepth) : ik[2] <= Len(calls[ik[1]].lookups)}

LookupAt(ik) == calls[ik[1]].lookups[ik[2]]

\* the parser.Get calls made for namespace pkg
LookupsOf(pkg) == {ik \in Lookups : LookupAt(ik).pkg = pkg}

C28_CommentsLookedUpOnce ==
    /\ \A ik \in Lookups :
          IF LookupAt(ik).ok
          THEN /\ Cardinality(LookupsOf(LookupAt(ik).pkg)) = 1
               /\ LookupAt(ik).pkg \in comments
          ELSE /\ LookupAt(ik).pkg \notin comments
               /\ IsSuffix(<<"parser.Get failed">>, calls[ik[1]].err)
    /\ \A i \in 1..Len(calls) : Len(calls[i].lookups) <= 2 * MaxDepth

\* two records of one namespace were synthesised by different calls on one
\* lookup, and a lookup of another namespace failed
C28_TwoRecordsOneLookup ==
    /\ Returned
    /\ Len(calls) = 3
    /\ \E i, j \in 1..3 :
          /\ i < j
          /\ Types[calls[i].t].pkg = <<"rest">> /\ Kind(calls[i].t) = "struct"
          /\ Types[calls[j].t].pkg = <<"rest">> /\ Kind(calls[j].t) = "struct"
          /\ IsSynthCall(calls[i]) /\ IsSynthCall(calls[j])
          /\ calls[i].err = <<>> /\ calls[j].err = <<>>
          /\ calls[i].lookups = << [pkg |-> <<"rest">>, ok |-> TRUE] >>
          /\ calls[j].lookups = <<>>
    /\ \E ik \in Lookups : ~LookupAt(ik).ok

====
